---- MODULE Spec2Model ----
(***************************************************************************)
(* A model of the TCP connection tracker of rust_pcap_test:                *)
(*   - Conn::sign_by_tuple (conn.rs and connections.rs), the canonical     *)
(*     signature and packet direction of a 4-tuple;                        *)
(*   - Connections (connections.rs), the registry and the TCP state        *)
(*     machine driven by process_packet;                                   *)
(*   - main and consume_ready_buffers (main.rs), the two threads that      *)
(*     share the registry behind one Mutex.                                *)
(*                                                                         *)
(* Numbers.  TLC's integers are 32-bit signed, so a u32 is kept as a pair  *)
(* <<hi, lo>> of 16-bit limbs (value hi * 2^16 + lo), an Ipv4Addr as the   *)
(* same pair of its big-endian u32, and a u128 signature as its eight      *)
(* 16-bit limbs, least significant first.  Shifts by multiples of 16 and   *)
(* ORs of disjoint bit ranges are then limb placements.                    *)
(***************************************************************************)
EXTENDS Integers, Sequences, FiniteSets, TLC

VARIABLES
    \* ---- the build ----
    overflow_checks,            \* TRUE: debug profile (arithmetic overflow panics); FALSE: release (wraps)
    \* ---- Connections (connections.rs:14-29) ----
    conn_list,                  \* HashMap<u128, Conn>: function from signatures to Conn records
    conn_alltime_count,
    packet_count,
    packet_len_error_count,
    packet_parsing_error_count,
    packet_not_tcp_count,
    \* ---- the process ----
    panicked,                   \* a panic unwound process_packet: the main thread, and with it the process, is over
    \* ---- the capture source and the call in progress ----
    workload,                   \* which bounded set of frames the capture source delivers
    last,                       \* the most recent process_packet call: what it was given and the state it found
    handshake,                  \* history: progress of a SYN, SYN/ACK exchange on one connection
    closing,                    \* history: progress of a FIN, FIN, ACK exchange on one connection
    accepted,                   \* history: per signature, the payload bytes and packets routed to each direction
    \* ---- main.rs: the two threads and the Mutex ----
    pc_main,                    \* position of main's ingestion loop
    pc_consumer,                \* position of consume_ready_buffers
    mutex,                      \* holder of Arc<Mutex<Connections>>: "free", "main" or "consumer"
    packet,                     \* the frame cap.next() returned, not yet processed
    ready_buffers,              \* the consumer's last get_connections_by_rules result
    \* ---- calls of the pure function sign_by_tuple ----
    sign_args,                  \* <<src_ip, src_port, dst_ip, dst_port>>
    sign_res,                   \* connections.rs results for (src, dst) and (dst, src), or NoResult
    conn_sign_res,              \* conn.rs results for (src, dst) and (dst, src), or NoResult
    addresses,                  \* addresses_as_str of a Conn made with conn_sign_res.fwd.sign
    \* ---- Conn and FlowBuff (conn.rs, flow_buff.rs) driven directly ----
    flow_conn_list,             \* the connections that own flows, by signature
    flow_last,                  \* the most recent add_bytes call: its arguments and what it computed
    flow_stream,                \* history: the byte stream sent so far in the direction observed
    flow_writes,                \* history: the write_bytes calls made, as <<wpos, length>>
    flow_answer                 \* the most recent query (has_ready_bytes, read_bytes,
                                \* relative_seq, get_connections_by_rules) and its result,
                                \* or NoAnswer once a flow has changed since

registryVars == <<conn_list, conn_alltime_count, packet_count, packet_len_error_count,
                  packet_parsing_error_count, packet_not_tcp_count>>
historyVars == <<last, handshake, closing, accepted>>
mainVars == <<pc_main, pc_consumer, mutex, packet, ready_buffers>>
signVars == <<sign_args, sign_res, conn_sign_res, addresses>>
flowVars == <<flow_conn_list, flow_last, flow_stream, flow_writes, flow_answer>>
vars == <<overflow_checks, registryVars, panicked, workload, historyVars, mainVars, signVars,
          flowVars>>

-----------------------------------------------------------------------------
(* Bounds *)

\* process_packet calls per run of the state-machine workload
MaxPackets == 5
\* process_packet calls per run of the registry workload
MaxRegistryPackets == 4
\* frames the capture delivers per run of the two-thread program
MaxCaptured == 2

-----------------------------------------------------------------------------
(* u32 arithmetic on limb pairs *)

U32(hi, lo) == <<hi, lo>>
U32_MAX == U32(65535, 65535)

\* x + 1 on a u32: the wrapped value, and whether the addition overflowed
u32_add_one(x) ==
    IF x[2] < 65535 THEN [overflow |-> FALSE, value |-> U32(x[1], x[2] + 1)]
    ELSE IF x[1] < 65535 THEN [overflow |-> FALSE, value |-> U32(x[1] + 1, 0)]
    ELSE [overflow |-> TRUE, value |-> U32(0, 0)]

\* Ord on Ipv4Addr: the order of the big-endian u32
ip_lt(a, b) == a[1] < b[1] \/ (a[1] = b[1] /\ a[2] < b[2])

\* Lexicographic order on endpoints <<ip, port>>: IP first, port as tie-breaker
endpoint_lt(a, b) == ip_lt(a[1], b[1]) \/ (a[1] = b[1] /\ a[2] < b[2])

-----------------------------------------------------------------------------
(* Conn::sign_by_tuple *)

\* connections.rs:207-220.  sign = ip | port << 32 | ip' << 48 | port' << 80
sign_by_tuple(src_ip, src_port, dst_ip, dst_port) ==
    IF ip_lt(src_ip, dst_ip) \/ src_port < dst_port
    THEN [sign |-> <<src_ip[2], src_ip[1], src_port, dst_ip[2], dst_ip[1], dst_port, 0, 0>>,
          dir |-> "SrcLowAddr"]
    ELSE [sign |-> <<dst_ip[2], dst_ip[1], dst_port, src_ip[2], src_ip[1], src_port, 0, 0>>,
          dir |-> "DstLowAddr"]

\* conn.rs:95-108.  sign = ip << 16 | port | ip' << 64 | port' << 48
conn_sign_by_tuple(src_ip, src_port, dst_ip, dst_port) ==
    IF ip_lt(src_ip, dst_ip) \/ src_port < dst_port
    THEN [sign |-> <<src_port, src_ip[2], src_ip[1], dst_port, dst_ip[2], dst_ip[1], 0, 0>>,
          dir |-> "SrcLowAddr"]
    ELSE [sign |-> <<dst_port, dst_ip[2], dst_ip[1], src_port, src_ip[2], src_ip[1], 0, 0>>,
          dir |-> "SrcHighAddr"]

\* The endpoint in the low bits of a signature, and the one in the high bits
sign_low(sign) == <<U32(sign[2], sign[1]), sign[3]>>
sign_high(sign) == <<U32(sign[5], sign[4]), sign[6]>>
conn_sign_low(sign) == <<U32(sign[3], sign[2]), sign[1]>>
conn_sign_high(sign) == <<U32(sign[6], sign[5]), sign[4]>>

-----------------------------------------------------------------------------
(* ConnState and Conn (connections.rs:173-203, 244-267) *)

NoSeq == U32(0, 0)
Created == [tag |-> "Created", dir |-> "-", seq |-> NoSeq]
SynSent(dir, seq) == [tag |-> "SynSent", dir |-> dir, seq |-> seq]
Established(dir) == [tag |-> "Established", dir |-> dir, seq |-> NoSeq]
FinWait1(dir, seq) == [tag |-> "FinWait1", dir |-> dir, seq |-> seq]
FinWait2(dir, seq) == [tag |-> "FinWait2", dir |-> dir, seq |-> seq]
Closed(dir) == [tag |-> "Closed", dir |-> dir, seq |-> NoSeq]

\* Conn::new, connections.rs:193-203
Conn_new(conn_sequence) ==
    [state |-> Created, conn_sequence |-> conn_sequence,
     total_bytes_1 |-> 0, total_bytes_2 |-> 0, packet_count_1 |-> 0, packet_count_2 |-> 0]

\* Conn::add_bytes with both directions counted in the low-source counters
Conn_add_bytes_one_counter(conn, byte_count, packet_dir) ==
    [conn EXCEPT !.total_bytes_1 = @ + byte_count, !.packet_count_1 = @ + 1]

\* Conn::add_bytes, connections.rs:222-233
Conn_add_bytes(conn, byte_count, packet_dir) ==
    IF packet_dir = "SrcLowAddr"
    THEN [conn EXCEPT !.total_bytes_1 = @ + byte_count, !.packet_count_1 = @ + 1]
    ELSE [conn EXCEPT !.total_bytes_2 = @ + byte_count, !.packet_count_2 = @ + 1]

\* get_connection_or_add_new without the increment of the all-time counter
get_connection_or_add_new_uncounted(list, alltime_count, conn_sign) ==
    IF conn_sign \in DOMAIN list
    THEN [list |-> list, count |-> alltime_count]
    ELSE [list |-> [s \in DOMAIN list \cup {conn_sign} |->
                        IF s = conn_sign THEN Conn_new(alltime_count + 1) ELSE list[s]],
          count |-> alltime_count]

\* Connections::get_connection_or_add_new, connections.rs:46-54: the map and the
\* all-time counter after the call (the Conn returned is list[conn_sign])
get_connection_or_add_new(list, alltime_count, conn_sign) ==
    IF conn_sign \in DOMAIN list
    THEN [list |-> list, count |-> alltime_count]
    ELSE [list |-> [s \in DOMAIN list \cup {conn_sign} |->
                        IF s = conn_sign THEN Conn_new(alltime_count + 1) ELSE list[s]],
          count |-> alltime_count + 1]

\* connections.rs:93-94: RST, or the ACK that answers the second FIN
close_rule_applies(state, tcp, packet_dir) ==
    tcp.rst \/ (state.tag = "FinWait2" /\ state.dir # packet_dir /\ tcp.ack
                /\ tcp.seq = state.seq)

\* A transition to new_state that first computes `tcp.sequence_number() + 1` in u32
\* (connections.rs:102, 107, 119): a panic under overflow checks when the sum
\* overflows; without the checks the sum wraps
with_next_seq(state, tcp, checks, new_state) ==
    IF checks /\ u32_add_one(tcp.seq).overflow
    THEN [panic |-> TRUE, state |-> state]
    ELSE [panic |-> FALSE, state |-> new_state]

\* connections.rs:98-112, a FIN that is not a RST
fin_rule(state, tcp, packet_dir, checks) ==
    LET next_seq == u32_add_one(tcp.seq).value
    IN  CASE state.tag = "Established" ->
                with_next_seq(state, tcp, checks, FinWait1(packet_dir, next_seq))
          [] state.tag = "FinWait1" /\ state.dir # packet_dir ->
                with_next_seq(state, tcp, checks, FinWait2(packet_dir, next_seq))
          [] OTHER -> [panic |-> FALSE, state |-> state]

\* The handshake rule with a SYN accepted in every state
syn_rule_any_state(state, tcp, packet_dir, checks) ==
    LET next_seq == u32_add_one(tcp.seq).value
    IN  CASE tcp.syn /\ ~tcp.ack ->
                with_next_seq(state, tcp, checks, SynSent(packet_dir, next_seq))
          [] state.tag = "SynSent" /\ tcp.syn /\ tcp.ack /\ state.dir # packet_dir
                /\ tcp.ackno = state.seq ->
                [panic |-> FALSE, state |-> Established(state.dir)]
          [] OTHER -> [panic |-> FALSE, state |-> state]

\* connections.rs:113-129, neither RST nor FIN: the handshake
syn_rule(state, tcp, packet_dir, checks) ==
    LET next_seq == u32_add_one(tcp.seq).value
    IN  CASE state.tag = "Created" /\ tcp.syn /\ ~tcp.ack ->
                with_next_seq(state, tcp, checks, SynSent(packet_dir, next_seq))
          [] state.tag = "SynSent" /\ tcp.syn /\ tcp.ack /\ state.dir # packet_dir
                /\ tcp.ackno = state.seq ->
                [panic |-> FALSE, state |-> Established(state.dir)]
          [] OTHER -> [panic |-> FALSE, state |-> state]

\* The state transition with the FIN rule looked at before the RST rule
tcp_transition_fin_first(state, tcp, packet_dir, checks) ==
    IF tcp.fin THEN fin_rule(state, tcp, packet_dir, checks)
    ELSE IF close_rule_applies(state, tcp, packet_dir)
    THEN [panic |-> FALSE, state |-> Closed(packet_dir)]
    ELSE syn_rule(state, tcp, packet_dir, checks)

\* The state transition of process_packet, connections.rs:92-129: the new state, or
\* a panic.  The rules are tried in the order RST/close-ACK, FIN, handshake.
tcp_transition(state, tcp, packet_dir, checks) ==
    IF close_rule_applies(state, tcp, packet_dir)
    THEN [panic |-> FALSE, state |-> Closed(packet_dir)]
    ELSE IF tcp.fin THEN fin_rule(state, tcp, packet_dir, checks)
    ELSE syn_rule(state, tcp, packet_dir, checks)

-----------------------------------------------------------------------------
(* Frames: what the capture source and the etherparse slicer hand to process_packet *)

\* A frame: its captured and wire lengths (packet.len(), packet.header.len), the
\* outcome of SlicedPacket::from_ethernet, and for IPv4/TCP the header fields read.
Frame(caplen, wirelen, parse, ip, transport, src, dst, flags, seq, ackno, ip_payload_len) ==
    [caplen |-> caplen, wirelen |-> wirelen, parse |-> parse, ip |-> ip, transport |-> transport,
     src_ip |-> src[1], src_port |-> src[2], dst_ip |-> dst[1], dst_port |-> dst[2],
     rst |-> flags[1], fin |-> flags[2], syn |-> flags[3], ack |-> flags[4],
     seq |-> seq, ackno |-> ackno, ip_payload_len |-> ip_payload_len, data_offset |-> 5]

Ip_10_0_0_1 == U32(2560, 1)
Ip_10_0_0_2 == U32(2560, 2)
Ip_10_1_0_1 == U32(2561, 1)

\* A client (high port) on the lower IP and a server on the higher IP, and the reverse
ClientLow == <<Ip_10_0_0_1, 40000>>
ServerHigh == <<Ip_10_0_0_2, 80>>
ServerLow == <<Ip_10_0_0_1, 80>>
ClientHigh == <<Ip_10_0_0_2, 40000>>

AllFlags == {<<r, f, s, a>> : r \in BOOLEAN, f \in BOOLEAN, s \in BOOLEAN, a \in BOOLEAN}
NoFlags == <<FALSE, FALSE, FALSE, FALSE>>
FlagSyn == <<FALSE, FALSE, TRUE, FALSE>>
FlagSynAck == <<FALSE, FALSE, TRUE, TRUE>>
FlagAck == <<FALSE, FALSE, FALSE, TRUE>>
FlagRst == <<TRUE, FALSE, FALSE, FALSE>>

TcpFrame(src, dst, flags, seq, ackno, payload_len) ==
    Frame(54 + payload_len, 54 + payload_len, "Ok", "Ipv4", "Tcp", src, dst, flags, seq, ackno,
          20 + payload_len)
DroppedFrame(caplen, wirelen, parse, ip, transport) ==
    Frame(caplen, wirelen, parse, ip, transport, ServerLow, ClientHigh, NoFlags, NoSeq, NoSeq, 20)

\* Frames that process_packet drops: truncated capture, parse error, no IP layer,
\* no transport layer, IPv6, IPv4 but not TCP
DroppedFrames ==
    { DroppedFrame(40, 54, "Ok", "Ipv4", "Tcp"),
      DroppedFrame(54, 54, "Err", "None", "None"),
      DroppedFrame(54, 54, "Ok", "None", "None"),
      DroppedFrame(54, 54, "Ok", "Ipv4", "None"),
      DroppedFrame(74, 74, "Ok", "Ipv6", "Tcp"),
      DroppedFrame(42, 42, "Ok", "Ipv4", "Udp") }

\* One connection, both directions, every flag combination, sequence numbers around
\* a handshake and a close, and the largest u32
StateMachineFrames ==
    { TcpFrame(t[1], t[2], fl, sa[1], sa[2], 0) :
        t \in {<<ServerLow, ClientHigh>>, <<ClientHigh, ServerLow>>},
        fl \in AllFlags,
        sa \in {<<U32(0, 1000), U32(0, 0)>>, <<U32(0, 1000), U32(0, 1001)>>,
                <<U32(0, 1001), U32(0, 1001)>>, <<U32(0, 1001), U32(0, 1002)>>,
                <<U32_MAX, U32(0, 0)>>} }

\* Two endpoint pairs in both directions, payloads of 0 and 4 bytes, and the drops
RegistryFrames ==
    { TcpFrame(t[1], t[2], fl, U32(0, 1000), U32(0, 0), n) :
        t \in {<<ServerLow, ClientHigh>>, <<ClientHigh, ServerLow>>,
               <<ClientLow, ServerHigh>>, <<ServerHigh, ClientLow>>},
        fl \in {FlagSyn, FlagRst},
        n \in {0, 4} }
    \cup DroppedFrames

\* What the two-thread program captures: a SYN, a SYN with the largest sequence
\* number, a RST and a truncated frame
MainFrames ==
    { TcpFrame(ServerLow, ClientHigh, FlagSyn, U32(0, 1000), U32(0, 0), 0),
      TcpFrame(ServerLow, ClientHigh, FlagSyn, U32_MAX, U32(0, 0), 0),
      TcpFrame(ClientHigh, ServerLow, FlagRst, U32(0, 1000), U32(0, 0), 4),
      DroppedFrame(40, 54, "Ok", "Ipv4", "Tcp") }

Frames(w) ==
    CASE w = "state_machine" -> StateMachineFrames
      [] w = "registry" -> RegistryFrames
      [] w = "main" -> MainFrames
      [] OTHER -> {}

-----------------------------------------------------------------------------
(* History of the calls, kept for stating properties of packet sequences *)

NoSign == <<0, 0, 0, 0, 0, 0, 0, 0>>
NoFrame == DroppedFrame(0, 0, "Err", "None", "None")
NoCall ==
    [routed |-> FALSE, rst |-> FALSE, conn_sign |-> NoSign, packet_dir |-> "-", before |-> "-",
     truncated |-> FALSE, parse_ok |-> TRUE, ipv4_tcp |-> TRUE]

\* What the frame of a call was: captured short of its wire length, parsed, IPv4/TCP
call_of(f, call) ==
    [call EXCEPT !.truncated = f.caplen < f.wirelen, !.parse_ok = f.parse = "Ok",
                 !.ipv4_tcp = f.ip = "Ipv4" /\ f.transport = "Tcp"]
NoHandshake == [stage |-> 0, conn_sign |-> NoSign, dir |-> "-", syn_seq |-> NoSeq, synack_seq |-> NoSeq]
NoClosing == [stage |-> 0, conn_sign |-> NoSign, dir |-> "-", fin_seq |-> NoSeq, fin2_seq |-> NoSeq]

flags_of(f) == <<f.rst, f.fin, f.syn, f.ack>>

\* A SYN (ACK clear) seen by a Created connection, then as the connection's next
\* packet a SYN+ACK from the other direction acknowledging the SYN's sequence + 1
handshake_after(h, f, conn_sign, packet_dir, before) ==
    IF before.tag = "Created" /\ flags_of(f) = FlagSyn
    THEN [stage |-> 1, conn_sign |-> conn_sign, dir |-> packet_dir, syn_seq |-> f.seq,
          synack_seq |-> NoSeq]
    ELSE IF h.stage = 0 \/ h.conn_sign # conn_sign THEN h
    ELSE IF h.stage = 1 /\ flags_of(f) = FlagSynAck /\ packet_dir # h.dir
            /\ f.ackno = u32_add_one(h.syn_seq).value
    THEN [h EXCEPT !.stage = 2, !.synack_seq = f.seq]
    ELSE NoHandshake

\* A FIN seen by an Established connection, then as the connection's next packet a
\* FIN from the other direction, then as its next a plain ACK from the first
\* direction with the first FIN's sequence + 1, acknowledging the second FIN's + 1
closing_after(c, f, conn_sign, packet_dir, before) ==
    LET is_fin == f.fin /\ ~f.rst /\ ~f.syn
    IN  IF before.tag = "Established" /\ is_fin
        THEN [stage |-> 1, conn_sign |-> conn_sign, dir |-> packet_dir, fin_seq |-> f.seq,
              fin2_seq |-> NoSeq]
        ELSE IF c.stage = 0 \/ c.conn_sign # conn_sign THEN c
        ELSE IF c.stage = 1 /\ is_fin /\ packet_dir # c.dir
        THEN [c EXCEPT !.stage = 2, !.fin2_seq = f.seq]
        ELSE IF c.stage = 2 /\ flags_of(f) = FlagAck /\ packet_dir = c.dir
                /\ f.seq = u32_add_one(c.fin_seq).value
                /\ f.ackno = u32_add_one(c.fin2_seq).value
        THEN [c EXCEPT !.stage = 3]
        ELSE NoClosing

\* The bytes and packets of the frames whose processing completed, per signature
\* and direction as sign_by_tuple routed them
NoneAccepted == [bytes_low |-> 0, bytes_high |-> 0, packets_low |-> 0, packets_high |-> 0]
accepted_of(acc, conn_sign) == IF conn_sign \in DOMAIN acc THEN acc[conn_sign] ELSE NoneAccepted
accepted_after(acc, conn_sign, packet_dir, payload_len) ==
    LET old == accepted_of(acc, conn_sign)
        new == IF packet_dir = "SrcLowAddr"
               THEN [old EXCEPT !.bytes_low = @ + payload_len, !.packets_low = @ + 1]
               ELSE [old EXCEPT !.bytes_high = @ + payload_len, !.packets_high = @ + 1]
    IN  [s \in DOMAIN acc \cup {conn_sign} |-> IF s = conn_sign THEN new ELSE acc[s]]

-----------------------------------------------------------------------------
(* Connections::process_packet, connections.rs:58-167 *)

\* A dropped frame that is counted as an error but not as a packet
drop_packet_uncounted(f, len_error, parsing_error, not_tcp) ==
    /\ packet_count' = packet_count
    /\ packet_len_error_count' = packet_len_error_count + len_error
    /\ packet_parsing_error_count' = packet_parsing_error_count + parsing_error
    /\ packet_not_tcp_count' = packet_not_tcp_count + not_tcp
    /\ last' = call_of(f, NoCall)
    /\ UNCHANGED <<conn_list, conn_alltime_count, panicked, handshake, closing, accepted>>

\* A frame counted and dropped: one error counter goes up, nothing else changes
drop_packet(f, len_error, parsing_error, not_tcp) ==
    /\ packet_count' = packet_count + 1
    /\ packet_len_error_count' = packet_len_error_count + len_error
    /\ packet_parsing_error_count' = packet_parsing_error_count + parsing_error
    /\ packet_not_tcp_count' = packet_not_tcp_count + not_tcp
    /\ last' = call_of(f, NoCall)
    /\ UNCHANGED <<conn_list, conn_alltime_count, panicked, handshake, closing, accepted>>

\* An IPv4/TCP frame, connections.rs:84-153
route_packet(f) ==
    LET tcp_payload_len == f.ip_payload_len - 4 * f.data_offset
        signed == sign_by_tuple(f.src_ip, f.src_port, f.dst_ip, f.dst_port)
        conn_sign == signed.sign
        packet_dir == signed.dir
        got == get_connection_or_add_new(conn_list, conn_alltime_count, conn_sign)
        conn == got.list[conn_sign]
        moved == tcp_transition(conn.state, f, packet_dir, overflow_checks)
        counted == Conn_add_bytes([conn EXCEPT !.state = moved.state], tcp_payload_len, packet_dir)
    IN  /\ packet_count' = packet_count + 1
        /\ conn_alltime_count' = got.count
        /\ panicked' = moved.panic
        /\ conn_list' = IF moved.panic THEN got.list
                        ELSE [got.list EXCEPT ![conn_sign] = counted]
        /\ last' = call_of(f, [NoCall EXCEPT !.routed = TRUE, !.rst = f.rst,
                                              !.conn_sign = conn_sign,
                                              !.packet_dir = packet_dir,
                                              !.before = conn.state.tag])
        /\ handshake' = handshake_after(handshake, f, conn_sign, packet_dir, conn.state)
        /\ closing' = closing_after(closing, f, conn_sign, packet_dir, conn.state)
        /\ accepted' = IF moved.panic THEN accepted
                        ELSE accepted_after(accepted, conn_sign, packet_dir, tcp_payload_len)
        /\ UNCHANGED <<packet_len_error_count, packet_parsing_error_count, packet_not_tcp_count>>

\* process_packet without the test of the captured length
process_packet_no_len_check(f) ==
    IF f.parse = "Err" THEN drop_packet(f, 0, 1, 0)
    ELSE IF f.ip = "None" \/ f.transport = "None" THEN drop_packet(f, 0, 0, 1)
    ELSE IF f.ip = "Ipv4" /\ f.transport = "Tcp" THEN route_packet(f)
    ELSE drop_packet(f, 0, 0, 1)

process_packet(f) ==
    IF f.caplen < f.wirelen THEN drop_packet(f, 1, 0, 0)
    ELSE IF f.parse = "Err" THEN drop_packet(f, 0, 1, 0)
    ELSE IF f.ip = "None" \/ f.transport = "None" THEN drop_packet(f, 0, 0, 1)
    ELSE IF f.ip = "Ipv4" /\ f.transport = "Tcp" THEN route_packet(f)
    ELSE drop_packet(f, 0, 0, 1)

-----------------------------------------------------------------------------
(* Initial states *)

NoResult == [done |-> FALSE, fwd |-> [sign |-> NoSign, dir |-> "-"], rev |-> [sign |-> NoSign, dir |-> "-"]]
NoArgs == <<NoSeq, 0, NoSeq, 0>>

\* Connections::new, connections.rs:34-43
Connections_new ==
    /\ conn_list = << >>
    /\ conn_alltime_count = 0
    /\ packet_count = 0
    /\ packet_len_error_count = 0
    /\ packet_parsing_error_count = 0
    /\ packet_not_tcp_count = 0

NoHistory == last = NoCall /\ handshake = NoHandshake /\ closing = NoClosing /\ accepted = << >>
NoThreads ==
    /\ pc_main = "idle" /\ pc_consumer = "idle" /\ mutex = "free"
    /\ packet = NoFrame /\ ready_buffers = {}
NoAddresses == [done |-> FALSE, low |-> << >>, high |-> << >>]
NoSignCall ==
    /\ sign_args = NoArgs /\ sign_res = NoResult /\ conn_sign_res = NoResult
    /\ addresses = NoAddresses

NoOffset == <<0, 0, 0, 0>>
NoFlowCall ==
    [op |-> "-", kind |-> "-", tcp_seq |-> NoSeq, byte_count |-> 0, first |-> FALSE,
     in_order |-> FALSE, start_seq |-> NoOffset, panic |-> FALSE, warned |-> FALSE,
     placed |-> FALSE, at |-> NoOffset, prev_placed |-> FALSE, prev_at |-> NoOffset]
NoStream == [isn_set |-> FALSE, next |-> NoSeq, sent |-> 0, in_order |-> TRUE, segments |-> 0]
NoAnswer ==
    [op |-> "-", closed |-> FALSE, min_ready_bytes |-> 0, seq |-> NoSeq, writes |-> 0,
     ready |-> FALSE, conns |-> {}, panic |-> FALSE, value |-> NoOffset,
     rpos |-> NoOffset, size |-> NoOffset, err |-> FALSE, bytes |-> << >>]
NoFlows ==
    /\ flow_conn_list = << >> /\ flow_last = NoFlowCall /\ flow_stream = NoStream
    /\ flow_writes = << >> /\ flow_answer = NoAnswer

-----------------------------------------------------------------------------
(* Spec: a single caller drives Connections::process_packet *)

Init ==
    /\ overflow_checks \in BOOLEAN
    /\ workload \in {"state_machine", "registry"}
    /\ Connections_new
    /\ panicked = FALSE
    /\ NoHistory /\ NoThreads /\ NoSignCall /\ NoFlows

MaxCalls(w) == IF w = "registry" THEN MaxRegistryPackets ELSE MaxPackets

ProcessPacket ==
    /\ ~panicked
    /\ packet_count < MaxCalls(workload)
    /\ \E f \in Frames(workload) : process_packet(f)
    /\ UNCHANGED <<overflow_checks, workload, mainVars, signVars, flowVars>>

Next == ProcessPacket

Spec == Init /\ [][Next]_vars

-----------------------------------------------------------------------------
(* SpecSign: calls of the pure function sign_by_tuple, in both argument orders *)

Endpoints == {Ip_10_0_0_1, Ip_10_0_0_2, Ip_10_1_0_1} \X {80, 443, 40000}

InitSign ==
    /\ overflow_checks = FALSE
    /\ workload = "sign"
    /\ Connections_new
    /\ panicked = FALSE
    /\ NoHistory /\ NoThreads /\ NoFlows
    /\ sign_args \in {<<a[1], a[2], b[1], b[2]>> : a \in Endpoints, b \in Endpoints}
    /\ sign_res = NoResult
    /\ conn_sign_res = NoResult
    /\ addresses = NoAddresses

CallSignByTuple ==
    /\ ~sign_res.done
    /\ sign_res' = [done |-> TRUE,
                    fwd |-> sign_by_tuple(sign_args[1], sign_args[2], sign_args[3], sign_args[4]),
                    rev |-> sign_by_tuple(sign_args[3], sign_args[4], sign_args[1], sign_args[2])]
    /\ UNCHANGED <<overflow_checks, registryVars, panicked, workload, historyVars, mainVars,
                   sign_args, conn_sign_res, addresses, flowVars>>

CallConnSignByTuple ==
    /\ ~conn_sign_res.done
    /\ conn_sign_res' = [done |-> TRUE,
                         fwd |-> conn_sign_by_tuple(sign_args[1], sign_args[2], sign_args[3], sign_args[4]),
                         rev |-> conn_sign_by_tuple(sign_args[3], sign_args[4], sign_args[1], sign_args[2])]
    /\ UNCHANGED <<overflow_checks, registryVars, panicked, workload, historyVars, mainVars,
                   sign_args, sign_res, addresses, flowVars>>

NextSign == CallSignByTuple \/ CallConnSignByTuple

SpecSign == InitSign /\ [][NextSign]_vars

-----------------------------------------------------------------------------
(* SpecMain: main.rs, the ingestion loop and the consumer thread *)

\* Connections::get_connections_by_rules is called at main.rs:109 and defined
\* nowhere under src/: per the specification it returns the connections that are
\* Closed (when `closed`) or have min_ready_bytes ready in one direction.  The
\* registry's Conn (connections.rs:173-190) owns no buffer, so none has ready bytes.
get_connections_by_rules(list, closed, min_ready_bytes) ==
    {s \in DOMAIN list : closed /\ list[s].state.tag = "Closed"}

\* The process runs until main returns (the capture ended) or a panic unwinds main
ProcessRunning == pc_main # "exited" /\ ~panicked

InitMain ==
    /\ overflow_checks \in BOOLEAN
    /\ workload = "main"
    /\ Connections_new
    /\ panicked = FALSE
    /\ NoHistory /\ NoSignCall /\ NoFlows
    /\ pc_main = "next" /\ pc_consumer = "lock" /\ mutex = "free"
    /\ packet = NoFrame /\ ready_buffers = {}

\* main.rs:99, cap.next() returns Ok(packet)
MainCapNext ==
    /\ ProcessRunning /\ pc_main = "next"
    /\ packet_count < MaxCaptured
    /\ \E f \in Frames(workload) : packet' = f
    /\ pc_main' = "lock"
    /\ UNCHANGED <<overflow_checks, registryVars, panicked, workload, historyVars,
                   pc_consumer, mutex, ready_buffers, signVars, flowVars>>

\* main.rs:99-103, cap.next() returns Err: the loop ends and main returns
MainCapEnd ==
    /\ ProcessRunning /\ pc_main = "next"
    /\ pc_main' = "exited"
    /\ UNCHANGED <<overflow_checks, registryVars, panicked, workload, historyVars,
                   pc_consumer, mutex, packet, ready_buffers, signVars, flowVars>>

\* A lock() that does not wait for the Mutex to be free
MainLock_no_wait ==
    /\ ProcessRunning /\ pc_main = "lock"
    /\ mutex' = "main"
    /\ pc_main' = "process"
    /\ UNCHANGED <<overflow_checks, registryVars, panicked, workload, historyVars,
                   pc_consumer, packet, ready_buffers, signVars, flowVars>>

\* main.rs:100, connections.lock().unwrap(): blocks until the Mutex is free
MainLock ==
    /\ ProcessRunning /\ pc_main = "lock"
    /\ mutex = "free"
    /\ mutex' = "main"
    /\ pc_main' = "process"
    /\ UNCHANGED <<overflow_checks, registryVars, panicked, workload, historyVars,
                   pc_consumer, packet, ready_buffers, signVars, flowVars>>

\* main.rs:100, .process_packet(&packet) on the guard; a panic unwinds main, which
\* drops the guard and ends the process
MainProcessPacket ==
    /\ ProcessRunning /\ pc_main = "process"
    /\ process_packet(packet)
    /\ pc_main' = IF panicked' THEN "panicked" ELSE "unlock"
    /\ mutex' = IF panicked' THEN "free" ELSE mutex
    /\ UNCHANGED <<overflow_checks, workload, pc_consumer, packet, ready_buffers, signVars, flowVars>>

\* main.rs:100, the temporary guard is dropped at the end of the statement
MainUnlock ==
    /\ ProcessRunning /\ pc_main = "unlock"
    /\ mutex' = "free"
    /\ pc_main' = "next"
    /\ UNCHANGED <<overflow_checks, registryVars, panicked, workload, historyVars,
                   pc_consumer, packet, ready_buffers, signVars, flowVars>>

\* main.rs:108, connections.lock().unwrap()
ConsumerLock ==
    /\ ProcessRunning /\ pc_consumer = "lock"
    /\ mutex = "free"
    /\ mutex' = "consumer"
    /\ pc_consumer' = "get"
    /\ UNCHANGED <<overflow_checks, registryVars, panicked, workload, historyVars,
                   pc_main, packet, ready_buffers, signVars, flowVars>>

\* main.rs:109, lock.get_connections_by_rules(true, 32000)
ConsumerGetConnectionsByRules ==
    /\ ProcessRunning /\ pc_consumer = "get"
    /\ ready_buffers' = get_connections_by_rules(conn_list, TRUE, 32000)
    /\ pc_consumer' = "drop"
    /\ UNCHANGED <<overflow_checks, registryVars, panicked, workload, historyVars,
                   pc_main, mutex, packet, signVars, flowVars>>

\* The consumer going to sleep with the guard kept (never dropped)
ConsumerDrop_keeps_guard ==
    /\ ProcessRunning /\ pc_consumer = "drop"
    /\ pc_consumer' = "sleep"
    /\ UNCHANGED <<overflow_checks, registryVars, panicked, workload, historyVars,
                   pc_main, mutex, packet, ready_buffers, signVars, flowVars>>

\* main.rs:110, std::mem::drop(lock)
ConsumerDrop ==
    /\ ProcessRunning /\ pc_consumer = "drop"
    /\ mutex' = "free"
    /\ pc_consumer' = "sleep"
    /\ UNCHANGED <<overflow_checks, registryVars, panicked, workload, historyVars,
                   pc_main, packet, ready_buffers, signVars, flowVars>>

\* main.rs:112, thread::sleep(10 ms), then the next iteration
ConsumerSleep ==
    /\ ProcessRunning /\ pc_consumer = "sleep"
    /\ pc_consumer' = "lock"
    /\ UNCHANGED <<overflow_checks, registryVars, panicked, workload, historyVars,
                   pc_main, mutex, packet, ready_buffers, signVars, flowVars>>

NextMain ==
    \/ MainCapNext \/ MainCapEnd \/ MainLock \/ MainProcessPacket \/ MainUnlock
    \/ ConsumerLock \/ ConsumerGetConnectionsByRules \/ ConsumerDrop \/ ConsumerSleep

SpecMain == InitMain /\ [][NextMain]_vars

\* Fair scheduling: a thread that can run does, and a thread waiting in lock() gets
\* the Mutex if it is free again and again (the consumer sleeps 10 ms after each
\* release, main waits for the next frame after each release).  Frames need not
\* keep arriving: MainCapNext and MainCapEnd are not fair.
SpecMainFair ==
    /\ SpecMain
    /\ SF_vars(MainLock) /\ WF_vars(MainProcessPacket) /\ WF_vars(MainUnlock)
    /\ SF_vars(ConsumerLock) /\ WF_vars(ConsumerGetConnectionsByRules)
    /\ WF_vars(ConsumerDrop) /\ WF_vars(ConsumerSleep)

-----------------------------------------------------------------------------
(* u64 and usize arithmetic (flow_buff.rs): four 16-bit limbs, most significant   *)
(* first.  usize is 64 bits wide.                                                 *)

U64(l3, l2, l1, l0) == <<l3, l2, l1, l0>>
u64_from_u32(x) == U64(0, 0, x[1], x[2])
\* n as u64, for 0 <= n < 2^31
u64_from_int(n) == U64(0, 0, n \div 65536, n % 65536)
\* the integer a u64 below 2^31 stands for
u64_to_int(x) == x[3] * 65536 + x[4]

\* a + b on u64: the wrapped sum, and whether the addition overflowed
u64_add(a, b) ==
    LET s0 == a[4] + b[4]
        s1 == a[3] + b[3] + (s0 \div 65536)
        s2 == a[2] + b[2] + (s1 \div 65536)
        s3 == a[1] + b[1] + (s2 \div 65536)
    IN  [overflow |-> s3 >= 65536,
         value |-> U64(s3 % 65536, s2 % 65536, s1 % 65536, s0 % 65536)]

\* a - b on u64: the wrapped difference, and whether the subtraction overflowed
u64_sub(a, b) ==
    LET d0 == a[4] - b[4]
        d1 == a[3] - b[3] - (IF d0 < 0 THEN 1 ELSE 0)
        d2 == a[2] - b[2] - (IF d1 < 0 THEN 1 ELSE 0)
        d3 == a[1] - b[1] - (IF d2 < 0 THEN 1 ELSE 0)
    IN  [overflow |-> d3 < 0,
         value |-> U64((d3 + 65536) % 65536, (d2 + 65536) % 65536,
                       (d1 + 65536) % 65536, (d0 + 65536) % 65536)]

u64_lt(a, b) ==
    \/ a[1] < b[1]
    \/ a[1] = b[1] /\ a[2] < b[2]
    \/ a[1] = b[1] /\ a[2] = b[2] /\ a[3] < b[3]
    \/ a[1] = b[1] /\ a[2] = b[2] /\ a[3] = b[3] /\ a[4] < b[4]
u64_le(a, b) == a = b \/ u64_lt(a, b)

\* `u32::MAX as u64`, flow_buff.rs:146, 159, 161, 163
U32_MAX_as_u64 == u64_from_u32(U32_MAX)

\* `(self.wrap_around as u64) * (u32::MAX as u64)`, flow_buff.rs:146, 159, for a
\* wrap_around below 2^16: wrap_around * 2^32 - wrap_around
wrap_around_times_u32_max(wrap_around) ==
    u64_sub(U64(0, wrap_around, 0, 0), U64(0, 0, 0, wrap_around)).value

-----------------------------------------------------------------------------
(* FlowBuff (flow_buff.rs) *)

\* flow_buff.rs:6 and 8
MAX_FORWARD_SEQ_JUMP == 100000
MAX_BUFFER_SIZE == 1000000

\* A Range<usize> of data_filled_ranges: the fields start and end
Range(start, end) == [start |-> start, end |-> end]
\* ExactSizeIterator::len of a Range<usize>, as flow_buff.rs:53 and 59 call it
Range_len(range) == IF range.end > range.start THEN range.end - range.start ELSE 0

\* FlowBuff::new, flow_buff.rs:35-47.  `data` is kept as its length, the set of
\* offsets a payload byte was stored at and the byte stored at each of them (every
\* other byte is the 0 of resize).
FlowBuff_new ==
    [data_len |-> 0, data_written |-> {}, data_bytes |-> << >>, data_filled_ranges |-> << >>,
     initial_sequence_number |-> U32(0, 0), byte_count |-> 0, packet_count |-> 0,
     wrap_around |-> 0, max_seq |-> U64(0, 0, 0, 0), window_scale |-> 1]

\* FlowBuff::has_ready_bytes, flow_buff.rs:51-54
has_ready_bytes(flow, min_ready_bytes) ==
    /\ Len(flow.data_filled_ranges) > 0
    /\ Range_len(flow.data_filled_ranges[1]) >= min_ready_bytes

\* FlowBuff::has_ready_buffer, flow_buff.rs:57-60
has_ready_buffer(flow, closed_connection, min_ready_bytes) ==
    /\ Len(flow.data_filled_ranges) > 0
    /\ (closed_connection \/ Range_len(flow.data_filled_ranges[1]) >= min_ready_bytes)

\* FlowBuff::add_data_filled_range, flow_buff.rs:90-114: the first range, in list
\* order, that one of the three tests matches is changed; with none, a range is pushed
add_data_filled_range(ranges, start, end_inclusive) ==
    LET adjacent(r) == r.end + 1 = start
        retransmission(r) == r.start = start
        missing_before(r) == r.start = end_inclusive + 1
        hits == {i \in 1..Len(ranges) :
                    adjacent(ranges[i]) \/ retransmission(ranges[i]) \/ missing_before(ranges[i])}
    IN  IF hits = {} THEN Append(ranges, Range(start, end_inclusive))
        ELSE LET i == CHOOSE j \in hits : \A k \in hits : j <= k
                 r == ranges[i]
             IN  IF adjacent(r) THEN [ranges EXCEPT ![i].end = end_inclusive]
                 ELSE IF retransmission(r)
                 THEN IF end_inclusive > r.end THEN [ranges EXCEPT ![i].end = end_inclusive]
                      ELSE ranges
                 ELSE [ranges EXCEPT ![i].start = start]

\* `self.data[pos]` for a pos inside the buffer
data_at(flow, pos) == IF pos \in flow.data_written THEN flow.data_bytes[pos] ELSE 0

\* FlowBuff::write_bytes, flow_buff.rs:69-86, for a non-empty `bytes` written at
\* wpos (a usize): the FlowBuff after the call, or a panic (the size sum
\* overflows under overflow checks, the size is above MAX_BUFFER_SIZE, or the first
\* index is outside the buffer after a wrapped size sum)
write_bytes(flow, bytes, wpos, checks) ==
    LET len == Len(bytes)
        sum == u64_add(u64_from_int(len), wpos)
        size == sum.value
        grows == u64_lt(u64_from_int(flow.data_len), size)
        resized == IF grows THEN [flow EXCEPT !.data_len = u64_to_int(size)] ELSE flow
    IN  IF checks /\ sum.overflow THEN [panic |-> TRUE, flow |-> flow]
        ELSE IF grows /\ u64_lt(u64_from_int(MAX_BUFFER_SIZE), size)
        THEN [panic |-> TRUE, flow |-> flow]
        ELSE IF ~u64_lt(wpos, u64_from_int(resized.data_len))
        THEN [panic |-> TRUE, flow |-> resized]
        ELSE LET pos == u64_to_int(wpos)
             IN  [panic |-> FALSE,
                  flow |-> [resized EXCEPT
                              !.data_written = @ \cup (pos..(pos + len - 1)),
                              !.data_bytes =
                                  [o \in flow.data_written \cup (pos..(pos + len - 1)) |->
                                      IF o >= pos /\ o < pos + len THEN bytes[o - pos + 1]
                                      ELSE flow.data_bytes[o]],
                              !.data_filled_ranges =
                                  add_data_filled_range(@, pos, pos + len - 1)]]

\* usize::MAX
USIZE_MAX == U64(65535, 65535, 65535, 65535)

\* FlowBuff::read_bytes, flow_buff.rs:127-135, for a size and an rpos in usize:
\* Err(UnexpectedEof), Ok(the bytes of data[rpos..rpos + size]) or a panic (the sum
\* rpos + size overflows under overflow checks; without them the wrapped sum passes
\* the length test and the slice starts after its end).  `self` is not assigned to.
read_bytes(flow, size, rpos, checks) ==
    LET sum == u64_add(rpos, size)
        end == sum.value
    IN  IF checks /\ sum.overflow THEN [panic |-> TRUE, err |-> FALSE, bytes |-> << >>]
        ELSE IF u64_lt(u64_from_int(flow.data_len), end)
        THEN [panic |-> FALSE, err |-> TRUE, bytes |-> << >>]
        ELSE IF u64_lt(end, rpos) THEN [panic |-> TRUE, err |-> FALSE, bytes |-> << >>]
        ELSE [panic |-> FALSE, err |-> FALSE,
              bytes |-> [i \in 1..u64_to_int(size) |-> data_at(flow, u64_to_int(rpos) + i - 1)]]

\* FlowBuff::set_initial_sequence_number, flow_buff.rs:137-140
set_initial_sequence_number(flow, initial_sequence_number) ==
    [flow EXCEPT !.initial_sequence_number = initial_sequence_number,
                 !.max_seq = u64_from_u32(initial_sequence_number)]

\* FlowBuff::relative_seq, flow_buff.rs:145-147: seq + wrap_around * u32::MAX - ISN - 1
\* in u64, left to right; a subtraction below 0 panics under overflow checks and
\* wraps without them
relative_seq(flow, seq, checks) ==
    LET sum == u64_add(u64_from_u32(seq), wrap_around_times_u32_max(flow.wrap_around)).value
        less_isn == u64_sub(sum, u64_from_u32(flow.initial_sequence_number))
        less_one == u64_sub(less_isn.value, U64(0, 0, 0, 1))
    IN  IF checks /\ (less_isn.overflow \/ less_one.overflow)
        THEN [panic |-> TRUE, value |-> U64(0, 0, 0, 0)]
        ELSE [panic |-> FALSE, value |-> less_one.value]

\* flow_buff.rs:159-169, the wrap-around and forward-jump policy applied to a
\* segment that ends at last_seq
seq_policy(flow, last_seq, checks) ==
    LET plus_max == u64_add(last_seq, U32_MAX_as_u64).value
        is_wrap == /\ u64_lt(last_seq, flow.max_seq)
                   /\ u64_lt(flow.max_seq, plus_max)
                   /\ u64_le(u64_sub(plus_max, u64_from_int(MAX_FORWARD_SEQ_JUMP)).value,
                             flow.max_seq)
        minus_jump == u64_sub(last_seq, u64_from_int(MAX_FORWARD_SEQ_JUMP))
    IN  IF is_wrap
        THEN [panic |-> FALSE, warned |-> FALSE,
              flow |-> [flow EXCEPT !.wrap_around = @ + 1, !.max_seq = plus_max]]
        ELSE IF checks /\ minus_jump.overflow
        THEN [panic |-> TRUE, warned |-> FALSE, flow |-> flow]
        ELSE IF u64_lt(minus_jump.value, flow.max_seq)
        THEN [panic |-> FALSE, warned |-> FALSE, flow |-> [flow EXCEPT !.max_seq = last_seq]]
        ELSE [panic |-> FALSE, warned |-> TRUE, flow |-> flow]

\* FlowBuff::add_bytes, flow_buff.rs:154-181, for a `data` of at least byte_count
\* bytes: the FlowBuff after the call or at the panic, whether the policy warned,
\* and the buffer offset computed for the payload (when one was)
FlowBuff_add_bytes(flow, tcp_seq, byte_count, data, checks) ==
    LET counted == [flow EXCEPT !.packet_count = @ + 1]
        summed == [counted EXCEPT !.byte_count = @ + byte_count]
        last_seq == u64_add(u64_add(u64_from_u32(tcp_seq), u64_from_int(byte_count)).value,
                            wrap_around_times_u32_max(flow.wrap_around)).value
        policy == seq_policy(summed, last_seq, checks)
        offset == Len(data) - byte_count
        buf == SubSeq(data, offset + 1, Len(data))
        buffer_offset == relative_seq(policy.flow, tcp_seq, checks)
        written == write_bytes(policy.flow, buf, buffer_offset.value, checks)
        none == U64(0, 0, 0, 0)
    IN  IF byte_count = 0
        THEN [panic |-> FALSE, warned |-> FALSE, flow |-> counted, placed |-> FALSE, at |-> none]
        ELSE IF policy.panic
        THEN [panic |-> TRUE, warned |-> FALSE, flow |-> summed, placed |-> FALSE, at |-> none]
        ELSE IF offset = 0
        THEN [panic |-> FALSE, warned |-> policy.warned, flow |-> policy.flow,
              placed |-> FALSE, at |-> none]
        ELSE IF buffer_offset.panic
        THEN [panic |-> TRUE, warned |-> policy.warned, flow |-> policy.flow,
              placed |-> FALSE, at |-> none]
        ELSE [panic |-> written.panic, warned |-> policy.warned, flow |-> written.flow,
              placed |-> ~written.panic, at |-> buffer_offset.value]

-----------------------------------------------------------------------------
(* Conn (conn.rs): the connection that owns one FlowBuff per direction *)

\* Conn::new, conn.rs:62-71
conn_new(conn_sequence, conn_sign) ==
    [state |-> Created, conn_sequence |-> conn_sequence, conn_sign |-> conn_sign,
     flow_src_low |-> FlowBuff_new, flow_src_high |-> FlowBuff_new]

\* The FlowBuff of the packets sent in packet_dir, as the matches of conn.rs:75-78
\* and 111-118 select it
conn_flow(conn, packet_dir) ==
    IF packet_dir = "SrcLowAddr" THEN conn.flow_src_low ELSE conn.flow_src_high
conn_with_flow(conn, packet_dir, flow) ==
    IF packet_dir = "SrcLowAddr" THEN [conn EXCEPT !.flow_src_low = flow]
    ELSE [conn EXCEPT !.flow_src_high = flow]

\* Conn::set_initial_sequence_number, conn.rs:74-79
conn_set_initial_sequence_number(conn, packet_dir, initial_sequence_number) ==
    conn_with_flow(conn, packet_dir,
                   set_initial_sequence_number(conn_flow(conn, packet_dir), initial_sequence_number))

\* Conn::add_bytes, conn.rs:110-119: the outcome of FlowBuff::add_bytes on the
\* direction's flow, and the Conn after it
conn_add_bytes(conn, tcp_seq, byte_count, packet_dir, data, checks) ==
    LET outcome(added) ==
            [panic |-> added.panic, warned |-> added.warned, placed |-> added.placed,
             at |-> added.at, conn |-> conn_with_flow(conn, packet_dir, added.flow)]
    IN  outcome(FlowBuff_add_bytes(conn_flow(conn, packet_dir), tcp_seq, byte_count, data, checks))

\* Conn::has_ready_bytes with the low-source flow alone looked at
conn_has_ready_bytes_low_only(conn, min_ready_bytes) ==
    has_ready_bytes(conn.flow_src_low, min_ready_bytes)

\* Conn::has_ready_bytes, conn.rs:123-125
conn_has_ready_bytes(conn, min_ready_bytes) ==
    \/ has_ready_bytes(conn.flow_src_low, min_ready_bytes)
    \/ has_ready_bytes(conn.flow_src_high, min_ready_bytes)

\* Connections::get_connections_by_rules over connections that own flows (see
\* get_connections_by_rules above): per the specification, every entry is looked at
\* and included if it is Closed (when `closed`) or one direction has
\* min_ready_bytes ready
conn_get_connections_by_rules(list, closed, min_ready_bytes) ==
    {s \in DOMAIN list :
        \/ closed /\ list[s].state.tag = "Closed"
        \/ conn_has_ready_bytes(list[s], min_ready_bytes)}

\* `(self.conn_sign >> shift) as u8` for a shift that is a multiple of 8: the byte
\* of the signature that starts at bit `shift`
sign_shr_as_u8(sign, shift) ==
    LET limb == sign[(shift \div 16) + 1]
    IN  IF shift % 16 = 0 THEN limb % 256 ELSE limb \div 256
\* `(self.conn_sign >> shift) as u16`: the two bytes that start at bit `shift`
sign_shr_as_u16(sign, shift) ==
    sign_shr_as_u8(sign, shift) + 256 * sign_shr_as_u8(sign, shift + 8)

\* The `{}` of format! for an unsigned integer: its decimal digits
RECURSIVE format_decimal(_)
format_decimal(n) ==
    LET digit == SubSeq("0123456789", (n % 10) + 1, (n % 10) + 1)
    IN  IF n < 10 THEN <<digit>> ELSE Append(format_decimal(n \div 10), digit)

\* format!("{}.{}.{}.{}:{}", a, b, c, d, port), as a sequence of characters
format_address(a, b, c, d, port) ==
    format_decimal(a) \o <<".">> \o format_decimal(b) \o <<".">> \o format_decimal(c)
        \o <<".">> \o format_decimal(d) \o <<":">> \o format_decimal(port)

\* Conn::addresses_as_str, conn.rs:82-91
addresses_as_str(conn, low_address) ==
    IF low_address
    THEN format_address(sign_shr_as_u8(conn.conn_sign, 40), sign_shr_as_u8(conn.conn_sign, 32),
                        sign_shr_as_u8(conn.conn_sign, 24), sign_shr_as_u8(conn.conn_sign, 16),
                        sign_shr_as_u16(conn.conn_sign, 0))
    ELSE format_address(sign_shr_as_u8(conn.conn_sign, 88), sign_shr_as_u8(conn.conn_sign, 80),
                        sign_shr_as_u8(conn.conn_sign, 72), sign_shr_as_u8(conn.conn_sign, 64),
                        sign_shr_as_u16(conn.conn_sign, 56))

-----------------------------------------------------------------------------
(* SpecAddresses: Conn::sign_by_tuple of conn.rs for a 4-tuple, then             *)
(* addresses_as_str of a Conn created with the signature                         *)

CallAddressesAsStr ==
    /\ conn_sign_res.done /\ ~addresses.done
    /\ LET conn == conn_new(1, conn_sign_res.fwd.sign)
       IN  addresses' = [done |-> TRUE, low |-> addresses_as_str(conn, TRUE),
                         high |-> addresses_as_str(conn, FALSE)]
    /\ UNCHANGED <<overflow_checks, registryVars, panicked, workload, historyVars, mainVars,
                   sign_args, sign_res, conn_sign_res, flowVars>>

NextAddresses == CallConnSignByTuple \/ CallAddressesAsStr

SpecAddresses == InitSign /\ [][NextAddresses]_vars

-----------------------------------------------------------------------------
(* SpecFlow: Conn and FlowBuff driven directly, one workload per run:            *)
(*   "ranges"    write_bytes calls on one flow, and has_ready_bytes queries;      *)
(*   "bytes"     write_bytes and read_bytes calls on one flow;                    *)
(*   "sequence"  an ISN, then segments through Conn::add_bytes, and relative_seq; *)
(*   "unset"     segments through Conn::add_bytes on a flow whose ISN is not set; *)
(*   "query"     two connections written to and closed, and                       *)
(*               get_connections_by_rules queries.                                *)

\* write_bytes calls per run
MaxWrites == 3
\* the highest offset a "ranges" run writes at
MaxOffset == 4
\* add_bytes calls per run
MaxSegments == 3

\* seq + n in u32, wrapping: how TCP sequence numbers advance
u32_wrapping_add(seq, n) ==
    LET sum == u64_add(u64_from_u32(seq), u64_from_int(n)).value
    IN  U32(sum[3], sum[4])

\* The bytes of a frame before the TCP payload: Ethernet, IPv4 and TCP headers
\* without options
HeadersLen == 14 + 20 + 20

\* The n bytes of the k-th payload handed to a flow: 16 * k + 1, 16 * k + 2, ...
payload_bytes(k, n) == [i \in 1..n |-> 16 * k + i]
\* The captured frame of the k-th segment: header bytes, then the payload
frame_bytes(k, n) == [i \in 1..HeadersLen |-> 255] \o payload_bytes(k, n)

FlowSign == conn_sign_by_tuple(Ip_10_0_0_1, 80, Ip_10_0_0_2, 40000).sign
FlowSign2 == conn_sign_by_tuple(Ip_10_0_0_1, 443, Ip_10_0_0_2, 40000).sign
FlowSigns(w) == IF w = "query" THEN <<FlowSign, FlowSign2>> ELSE <<FlowSign>>
FlowDirs(w) == IF w = "query" THEN {"SrcLowAddr", "SrcHighAddr"} ELSE {"SrcLowAddr"}

\* <<wpos, length>> of the write_bytes calls of a workload
WriteInputs(w) ==
    IF w = "query" THEN {<<0, 2>>, <<0, 4>>}
    ELSE IF w = "bytes" THEN {<<0, 2>>, <<1, 2>>, <<3, 1>>, <<MAX_BUFFER_SIZE, 1>>}
    ELSE (0..MaxOffset) \X (1..2)
\* rpos and size of the read_bytes calls
ReadPositions == {u64_from_int(n) : n \in 0..3} \cup {USIZE_MAX}
ReadSizes == {u64_from_int(n) : n \in 0..2}
QueryMins == {0, 2, 3}

\* ISNs: 1000, 200000, 2^32 - 6 and 2^32 - 1
Isns == {U32(0, 1000), U32(3, 3392), U32(65535, 65530), U32_MAX}
SegmentKinds == {"in_order", "retransmit", "jump", "far_jump"}
SegmentLens == {0, 1, 4}

\* The sequence number of a segment: the next byte of the stream, the previous
\* segment again, or MAX_FORWARD_SEQ_JUMP or MAX_BUFFER_SIZE bytes ahead of the stream
segment_seq(kind) ==
    CASE kind = "in_order" -> flow_stream.next
      [] kind = "retransmit" -> flow_last.tcp_seq
      [] kind = "jump" -> u32_wrapping_add(flow_stream.next, MAX_FORWARD_SEQ_JUMP)
      [] OTHER -> u32_wrapping_add(flow_stream.next, MAX_BUFFER_SIZE)

InitFlow ==
    /\ overflow_checks \in BOOLEAN
    /\ workload \in {"ranges", "bytes", "sequence", "unset", "query"}
    /\ Connections_new
    /\ panicked = FALSE
    /\ NoHistory /\ NoThreads /\ NoSignCall
    /\ flow_conn_list = [s \in {FlowSigns(workload)[i] : i \in 1..Len(FlowSigns(workload))} |->
                            conn_new(CHOOSE i \in 1..Len(FlowSigns(workload)) :
                                        FlowSigns(workload)[i] = s, s)]
    /\ flow_last = NoFlowCall /\ flow_stream = NoStream
    /\ flow_writes = << >> /\ flow_answer = NoAnswer

\* Conn::set_initial_sequence_number on the low-source direction, once
FlowSetInitialSequenceNumber ==
    /\ ~panicked /\ workload = "sequence" /\ ~flow_stream.isn_set
    /\ \E isn \in Isns :
          /\ flow_conn_list' = [flow_conn_list EXCEPT ![FlowSign] =
                                    conn_set_initial_sequence_number(@, "SrcLowAddr", isn)]
          /\ flow_stream' = [NoStream EXCEPT !.isn_set = TRUE, !.next = u32_wrapping_add(isn, 1)]
    /\ flow_answer' = NoAnswer
    /\ UNCHANGED <<overflow_checks, registryVars, panicked, workload, historyVars, mainVars,
                   signVars, flow_last, flow_writes>>

\* Conn::add_bytes for a segment of the low-source direction
FlowAddBytes ==
    /\ ~panicked /\ workload = "sequence" /\ flow_stream.isn_set
    /\ flow_stream.segments < MaxSegments
    /\ \E kind \in SegmentKinds, byte_count \in SegmentLens :
          /\ kind = "retransmit" => flow_stream.segments > 0
          /\ LET tcp_seq == segment_seq(kind)
                 conn == flow_conn_list[FlowSign]
                 isn == conn.flow_src_low.initial_sequence_number
                 data == frame_bytes(flow_stream.segments + 1, byte_count)
                 in_order == flow_stream.in_order /\ kind = "in_order" /\ byte_count > 0
             IN  \E added \in {conn_add_bytes(conn, tcp_seq, byte_count, "SrcLowAddr", data,
                                              overflow_checks)} :
                 /\ flow_conn_list' = [flow_conn_list EXCEPT ![FlowSign] = added.conn]
                 /\ panicked' = added.panic
                 /\ flow_last' =
                       [op |-> "add_bytes", kind |-> kind, tcp_seq |-> tcp_seq,
                        byte_count |-> byte_count, first |-> flow_stream.segments = 0,
                        in_order |-> in_order,
                        start_seq |-> u64_add(u64_from_u32(isn),
                                              u64_from_int(1 + flow_stream.sent)).value,
                        panic |-> added.panic, warned |-> added.warned,
                        placed |-> added.placed, at |-> added.at,
                        prev_placed |-> flow_last.placed, prev_at |-> flow_last.at]
                 /\ flow_stream' =
                       [flow_stream EXCEPT
                          !.segments = @ + 1, !.in_order = in_order,
                          !.next = IF kind = "in_order" THEN u32_wrapping_add(@, byte_count) ELSE @,
                          !.sent = IF kind = "in_order" THEN @ + byte_count ELSE @]
    /\ flow_answer' = NoAnswer
    /\ UNCHANGED <<overflow_checks, registryVars, workload, historyVars, mainVars, signVars,
                   flow_writes>>

\* Sequence numbers of the segments of an "unset" run: 0, 1 and 100000
UnsetSeqs == {U32(0, 0), U32(0, 1), U32(1, 34464)}
UnsetLens == {0, 1, 2}

\* Conn::add_bytes for a segment of a direction whose ISN was never set
FlowAddBytesUnset ==
    /\ ~panicked /\ workload = "unset"
    /\ flow_stream.segments < MaxSegments
    /\ \E tcp_seq \in UnsetSeqs, byte_count \in UnsetLens :
          \E added \in {conn_add_bytes(flow_conn_list[FlowSign], tcp_seq, byte_count,
                                       "SrcLowAddr",
                                       frame_bytes(flow_stream.segments + 1, byte_count),
                                       overflow_checks)} :
              /\ flow_conn_list' = [flow_conn_list EXCEPT ![FlowSign] = added.conn]
              /\ panicked' = added.panic
              /\ flow_last' = [NoFlowCall EXCEPT
                                  !.op = "add_bytes_unset", !.tcp_seq = tcp_seq,
                                  !.byte_count = byte_count, !.panic = added.panic,
                                  !.warned = added.warned, !.placed = added.placed,
                                  !.at = added.at]
              /\ flow_stream' = [flow_stream EXCEPT !.segments = @ + 1]
    /\ flow_answer' = NoAnswer
    /\ UNCHANGED <<overflow_checks, registryVars, workload, historyVars, mainVars, signVars,
                   flow_writes>>

\* FlowBuff::relative_seq of the stream's first and next sequence numbers
FlowRelativeSeq ==
    /\ ~panicked /\ workload = "sequence" /\ flow_stream.isn_set
    /\ \E seq \in {flow_stream.next,
                   u32_wrapping_add(flow_conn_list[FlowSign].flow_src_low.initial_sequence_number, 1)} :
          LET res == relative_seq(flow_conn_list[FlowSign].flow_src_low, seq, overflow_checks)
          IN  /\ flow_answer' = [NoAnswer EXCEPT !.op = "relative_seq", !.seq = seq,
                                                 !.writes = flow_stream.segments,
                                                 !.panic = res.panic, !.value = res.value]
              /\ panicked' = res.panic
    /\ UNCHANGED <<overflow_checks, registryVars, workload, historyVars, mainVars, signVars,
                   flow_conn_list, flow_last, flow_stream, flow_writes>>

\* FlowBuff::write_bytes on a flow of a connection
FlowWriteBytes ==
    /\ ~panicked /\ workload \in {"ranges", "bytes", "query"}
    /\ Len(flow_writes) < MaxWrites
    /\ \E s \in DOMAIN flow_conn_list, dir \in FlowDirs(workload), in \in WriteInputs(workload) :
          LET conn == flow_conn_list[s]
              res == write_bytes(conn_flow(conn, dir), payload_bytes(Len(flow_writes) + 1, in[2]),
                                 u64_from_int(in[1]), overflow_checks)
          IN  /\ flow_conn_list' = [flow_conn_list EXCEPT ![s] = conn_with_flow(conn, dir, res.flow)]
              /\ panicked' = res.panic
              /\ flow_writes' = Append(flow_writes, in)
    /\ flow_answer' = NoAnswer
    /\ UNCHANGED <<overflow_checks, registryVars, workload, historyVars, mainVars, signVars,
                   flow_last, flow_stream>>

\* FlowBuff::has_ready_bytes on the flow written to
FlowHasReadyBytes ==
    /\ ~panicked /\ workload = "ranges"
    /\ \E min_ready_bytes \in 0..MaxOffset :
          flow_answer' = [NoAnswer EXCEPT
                            !.op = "has_ready_bytes", !.min_ready_bytes = min_ready_bytes,
                            !.writes = Len(flow_writes),
                            !.ready = has_ready_bytes(flow_conn_list[FlowSign].flow_src_low,
                                                      min_ready_bytes)]
    /\ UNCHANGED <<overflow_checks, registryVars, panicked, workload, historyVars, mainVars,
                   signVars, flow_conn_list, flow_last, flow_stream, flow_writes>>

\* FlowBuff::read_bytes on the flow written to
FlowReadBytes ==
    /\ ~panicked /\ workload = "bytes"
    /\ \E rpos \in ReadPositions, size \in ReadSizes :
          LET res == read_bytes(flow_conn_list[FlowSign].flow_src_low, size, rpos, overflow_checks)
          IN  /\ flow_answer' = [NoAnswer EXCEPT
                                    !.op = "read_bytes", !.rpos = rpos, !.size = size,
                                    !.writes = Len(flow_writes), !.panic = res.panic,
                                    !.err = res.err, !.bytes = res.bytes]
              /\ panicked' = res.panic
    /\ UNCHANGED <<overflow_checks, registryVars, workload, historyVars, mainVars, signVars,
                   flow_conn_list, flow_last, flow_stream, flow_writes>>

\* A RST closes a connection: per the specification (4.3, rule 1) the state becomes
\* Closed with the direction of the packet.  The code that assigns Conn::state of
\* conn.rs:17 is nowhere under src/.
FlowRst ==
    /\ ~panicked /\ workload = "query"
    /\ \E s \in DOMAIN flow_conn_list :
          /\ flow_conn_list[s].state.tag # "Closed"
          /\ flow_conn_list' = [flow_conn_list EXCEPT ![s].state = Closed("SrcLowAddr")]
    /\ flow_answer' = NoAnswer
    /\ UNCHANGED <<overflow_checks, registryVars, panicked, workload, historyVars, mainVars,
                   signVars, flow_last, flow_stream, flow_writes>>

\* Connections::get_connections_by_rules on the connections that own flows
FlowGetConnectionsByRules ==
    /\ ~panicked /\ workload = "query"
    /\ \E closed \in BOOLEAN, min_ready_bytes \in QueryMins :
          flow_answer' = [NoAnswer EXCEPT
                            !.op = "get_connections_by_rules", !.closed = closed,
                            !.min_ready_bytes = min_ready_bytes,
                            !.conns = conn_get_connections_by_rules(flow_conn_list, closed,
                                                                    min_ready_bytes)]
    /\ UNCHANGED <<overflow_checks, registryVars, panicked, workload, historyVars, mainVars,
                   signVars, flow_conn_list, flow_last, flow_stream, flow_writes>>

NextFlow ==
    \/ FlowSetInitialSequenceNumber \/ FlowAddBytes \/ FlowAddBytesUnset \/ FlowRelativeSeq
    \/ FlowWriteBytes \/ FlowHasReadyBytes \/ FlowReadBytes \/ FlowRst
    \/ FlowGetConnectionsByRules

SpecFlow == InitFlow /\ [][NextFlow]_vars

-----------------------------------------------------------------------------
(* Properties *)

sign_src == <<U32(sign_args[1][1], sign_args[1][2]), sign_args[2]>>
sign_dst == <<U32(sign_args[3][1], sign_args[3][2]), sign_args[4]>>

\* C1: for distinct endpoints, sign_by_tuple of (src, dst) and of (dst, src) give
\* the same signature and opposite directions (both implementations).
C1_SwapSameSignFlippedDir ==
    sign_src # sign_dst =>
        /\ sign_res.done =>
              sign_res.fwd.sign = sign_res.rev.sign /\ sign_res.fwd.dir # sign_res.rev.dir
        /\ conn_sign_res.done =>
              conn_sign_res.fwd.sign = conn_sign_res.rev.sign
              /\ conn_sign_res.fwd.dir # conn_sign_res.rev.dir

\* C2: sign_by_tuple returns the low-source direction exactly when the source
\* endpoint is strictly below the destination endpoint in (IP, port) lexicographic
\* order, and the endpoint in the low bits of the signature is the lower one.
C2_DirectionIsLexicographic ==
    LET low == IF endpoint_lt(sign_src, sign_dst) THEN sign_src ELSE sign_dst
    IN  /\ sign_res.done =>
              /\ (sign_res.fwd.dir = "SrcLowAddr") <=> endpoint_lt(sign_src, sign_dst)
              /\ sign_low(sign_res.fwd.sign) = low
        /\ conn_sign_res.done =>
              /\ (conn_sign_res.fwd.dir = "SrcLowAddr") <=> endpoint_lt(sign_src, sign_dst)
              /\ conn_sign_low(conn_sign_res.fwd.sign) = low

\* C3: the registry holds one Conn per unordered endpoint pair: no two keys of
\* conn_list are made of the same two endpoints.
C3_OneConnPerEndpointPair ==
    \A k1 \in DOMAIN conn_list, k2 \in DOMAIN conn_list :
        {sign_low(k1), sign_high(k1)} = {sign_low(k2), sign_high(k2)} => k1 = k2

\* C4: process_packet and get_connections_by_rules each run while their caller
\* holds the Mutex, and the two threads never hold it together.
C4_RegistryOnlyUnderGuard ==
    /\ pc_main \in {"process", "unlock"} => mutex = "main"
    /\ pc_consumer \in {"get", "drop"} => mutex = "consumer"
    /\ ~(pc_main \in {"process", "unlock"} /\ pc_consumer \in {"get", "drop"})

\* C4 witness: main has processed a frame under the guard while the consumer, which
\* polled before and found a Closed connection, waits for the guard.
C4_MainHoldsConsumerWaits ==
    /\ pc_main = "unlock" /\ mutex = "main" /\ pc_consumer = "lock"
    /\ ready_buffers # {} /\ packet_count = 2

\* C5: the consumer never sleeps holding the guard, and while the process runs a
\* frame waiting for the guard is eventually processed and a consumer poll waiting
\* for the guard eventually gets it.
C5_NeitherBlocksForever ==
    /\ [](pc_consumer = "sleep" => mutex # "consumer")
    /\ (pc_main = "lock") ~> (pc_main = "unlock" \/ ~ProcessRunning)
    /\ (pc_consumer = "lock") ~> (pc_consumer = "get" \/ ~ProcessRunning)

\* C5 witness: a frame waits for the guard while the consumer holds it.
C5_MainWaitsConsumerHolds ==
    pc_main = "lock" /\ mutex = "consumer" /\ pc_consumer = "drop"

\* C6: no process_packet call panics.
C6_NoPanic == ~panicked

\* C7: after a packet with RST, whatever its other flags and the state before, the
\* connection is Closed with the direction of that packet.
C7_RstCloses ==
    (last.routed /\ last.rst) =>
        /\ ~panicked
        /\ conn_list[last.conn_sign].state = Closed(last.packet_dir)

\* C7 witness: a RST that found the connection in FinWait2.
C7_RstInFinWait2 ==
    /\ last.routed /\ last.rst /\ last.before = "FinWait2"
    /\ conn_list[last.conn_sign].state.tag = "Closed"

\* The ISN the registry holds for one direction of a connection.  Conn
\* (connections.rs:173-190) has no field for it and process_packet
\* (connections.rs:114-129) makes no call of set_initial_sequence_number
\* (conn.rs:74-79), so none is ever recorded.
Conn_initial_sequence_number(conn, packet_dir) == [set |-> FALSE, value |-> NoSeq]

other_dir(packet_dir) == IF packet_dir = "SrcLowAddr" THEN "DstLowAddr" ELSE "SrcLowAddr"

\* C8: after a SYN (sequence s, direction d) seen in Created and a SYN+ACK from the
\* other direction acknowledging s + 1 (sequence t), the state is Established(d) and
\* the ISNs s and t are recorded on d's and the other direction's flow.
C8_HandshakeEstablishesAndRecordsIsn ==
    (handshake.stage = 2 /\ ~panicked) =>
        LET conn == conn_list[handshake.conn_sign]
        IN  /\ conn.state = Established(handshake.dir)
            /\ Conn_initial_sequence_number(conn, handshake.dir)
                 = [set |-> TRUE, value |-> handshake.syn_seq]
            /\ Conn_initial_sequence_number(conn, other_dir(handshake.dir))
                 = [set |-> TRUE, value |-> handshake.synack_seq]

\* C9: from Established, FIN (d, s), FIN (d', t), ACK (d, sequence s + 1,
\* acknowledging t + 1) lead through FinWait1(d) and FinWait2(d') to Closed(d).
C9_FinFinAckCloses ==
    (closing.stage > 0 /\ ~panicked) =>
        LET state == conn_list[closing.conn_sign].state
        IN  /\ closing.stage = 1 => state.tag = "FinWait1" /\ state.dir = closing.dir
            /\ closing.stage = 2 => state.tag = "FinWait2" /\ state.dir = other_dir(closing.dir)
            /\ closing.stage = 3 => state = Closed(closing.dir)

\* C10: each direction's byte counter is the sum of the payload lengths of the
\* packets routed to that direction, and of no others.
C10_ByteCountIsSumOfPayloads ==
    \A s \in DOMAIN conn_list :
        /\ conn_list[s].total_bytes_1 = accepted_of(accepted, s).bytes_low
        /\ conn_list[s].total_bytes_2 = accepted_of(accepted, s).bytes_high

\* C10 witness: a payload seen twice and an empty packet in one direction, a payload
\* in the other.
C10_RetransmitAndBothDirections ==
    \E s \in DOMAIN conn_list :
        /\ conn_list[s].total_bytes_1 = 8 /\ conn_list[s].packet_count_1 = 3
        /\ conn_list[s].total_bytes_2 = 4 /\ conn_list[s].packet_count_2 = 1

\* The flow a "ranges" run writes to
ranges_flow == flow_conn_list[FlowSign].flow_src_low

\* C11: on a new FlowBuff, writing [a,b) then [b,c) leaves the one range [a,c),
\* writing [a,b) twice leaves the one range [a,b), and writing [b,c) then [a,b)
\* leaves the one range [a,c), each a half-open interval start..end.
C11_AdjacentWritesMergeHalfOpen ==
    (workload = "ranges" /\ Len(flow_writes) = 2 /\ ~panicked) =>
        LET a1 == flow_writes[1][1]
            b1 == a1 + flow_writes[1][2]
            a2 == flow_writes[2][1]
            b2 == a2 + flow_writes[2][2]
            ranges == ranges_flow.data_filled_ranges
        IN  /\ a2 = b1 => ranges = <<Range(a1, b2)>>
            /\ (a2 = a1 /\ b2 = b1) => ranges = <<Range(a1, b1)>>
            /\ b2 = a1 => ranges = <<Range(a2, b1)>>

\* C12: after every insertion, between any two entries of data_filled_ranges there
\* is at least one offset that holds no payload byte (no two entries overlap or
\* touch), whether an entry's end is read as its last offset or as one past it.
C12_FilledRangesAreSeparated ==
    \A s \in DOMAIN flow_conn_list, dir \in {"SrcLowAddr", "SrcHighAddr"} :
        LET flow == conn_flow(flow_conn_list[s], dir)
            ranges == flow.data_filled_ranges
        IN  \A i \in 1..Len(ranges), j \in 1..Len(ranges) :
                (i # j /\ ranges[i].start <= ranges[j].start) =>
                    \E x \in ranges[i].end..(ranges[j].start - 1) : x \notin flow.data_written

\* The payload bytes stored at the offsets a filled range was inserted for
covered_bytes(flow, range) ==
    Cardinality({x \in flow.data_written : range.start <= x /\ x <= range.end})

\* C13: has_ready_bytes(min) is true exactly when there is a first filled range and
\* it covers at least min payload bytes (n bytes written contiguously from offset
\* 0: true for min <= n, false for min > n).
C13_ReadyIffFirstRangeCoversMin ==
    (flow_answer.op = "has_ready_bytes" /\ flow_answer.writes = Len(flow_writes) /\ ~panicked) =>
        LET ranges == ranges_flow.data_filled_ranges
        IN  flow_answer.ready <=>
                /\ Len(ranges) > 0
                /\ covered_bytes(ranges_flow, ranges[1]) >= flow_answer.min_ready_bytes

sequence_flow == flow_conn_list[FlowSign].flow_src_low

\* tcp_seq + wrap_around * 2^32 - isn - 1, and whether it is below 0
true_relative_seq(flow, tcp_seq) ==
    u64_sub(U64(0, flow.wrap_around, tcp_seq[1], tcp_seq[2]),
            u64_add(u64_from_u32(flow.initial_sequence_number), U64(0, 0, 0, 1)).value)

\* C15: whenever tcp_seq + wrap_around * 2^32 - isn - 1 is not negative,
\* relative_seq(tcp_seq) returns it.
C15_RelativeSeqCountsWrapsOf2To32 ==
    (flow_answer.op = "relative_seq" /\ flow_answer.writes = flow_stream.segments) =>
        LET expected == true_relative_seq(sequence_flow, flow_answer.seq)
        IN  ~expected.overflow => (~flow_answer.panic /\ flow_answer.value = expected.value)

\* C16: with the ISN set to s (any u32, 2^32 - 1 included), the first payload
\* byte, of sequence number s + 1 in u32, is placed at relative offset 0 when its
\* segment is processed.
C16_FirstPayloadByteAtOffsetZero ==
    (flow_last.op = "add_bytes" /\ flow_last.first /\ flow_last.kind = "in_order"
        /\ flow_last.byte_count > 0) =>
        /\ ~flow_last.panic
        /\ flow_last.placed /\ flow_last.at = U64(0, 0, 0, 0)

\* 2^32 as a u64
Two32 == U64(0, 1, 0, 0)

\* C17: for an in-order stream of non-empty segments that starts less than 2^16
\* below 2^32 and crosses it, after each segment wrap_around is 1 if the segment's
\* first byte lies at or beyond 2^32 and 0 if it lies before, no add_bytes call
\* panics, and each segment is placed at a higher offset than the one before.
C17_InOrderStreamAcrossWrap ==
    (flow_last.op = "add_bytes" /\ flow_last.in_order
        /\ sequence_flow.initial_sequence_number[1] = 65535) =>
        /\ ~flow_last.panic
        /\ sequence_flow.wrap_around = IF u64_le(Two32, flow_last.start_seq) THEN 1 ELSE 0
        /\ flow_last.placed
        /\ flow_last.prev_placed => u64_lt(flow_last.prev_at, flow_last.at)

\* A segment whose last_seq = tcp_seq + byte_count + wrap_around * 2^32 lies more
\* than MAX_FORWARD_SEQ_JUMP beyond max_seq
suspicious_jump(flow, tcp_seq, byte_count) ==
    u64_lt(u64_add(flow.max_seq, u64_from_int(MAX_FORWARD_SEQ_JUMP)).value,
           u64_add(U64(0, flow.wrap_around, tcp_seq[1], tcp_seq[2]), u64_from_int(byte_count)).value)

\* C18: an add_bytes call for a segment more than MAX_FORWARD_SEQ_JUMP beyond
\* max_seq (the ISN being set) completes, leaves max_seq and wrap_around as they
\* were, adds to byte_count and packet_count, and writes the payload into the
\* buffer at the segment's relative offset.
C18_SuspiciousJumpStillCountedAndWritten ==
    [][(flow_last'.op = "add_bytes" /\ flow_stream'.segments = flow_stream.segments + 1
          /\ flow_last'.byte_count > 0
          /\ suspicious_jump(sequence_flow, flow_last'.tcp_seq, flow_last'.byte_count)) =>
          LET before == sequence_flow
              after == flow_conn_list'[FlowSign].flow_src_low
              at == u64_to_int(flow_last'.at)
          IN  /\ ~flow_last'.panic
              /\ after.max_seq = before.max_seq /\ after.wrap_around = before.wrap_around
              /\ after.byte_count = before.byte_count + flow_last'.byte_count
              /\ after.packet_count = before.packet_count + 1
              /\ flow_last'.placed
              /\ flow_last'.at = relative_seq(before, flow_last'.tcp_seq, FALSE).value
              /\ (at..(at + flow_last'.byte_count - 1)) \subseteq after.data_written
              /\ after.data_len >= at + flow_last'.byte_count
      ]_vars

\* The packets counted on the two directions of the connections of a set of keys
RECURSIVE packets_of(_, _)
packets_of(list, keys) ==
    IF keys = {} THEN 0
    ELSE LET s == CHOOSE k \in keys : TRUE
         IN  list[s].packet_count_1 + list[s].packet_count_2 + packets_of(list, keys \ {s})
packets_accepted == packets_of(conn_list, DOMAIN conn_list)

\* C19: packet_count is never below the sum of the three error counters and the
\* packets counted on the connections' directions, no aggregate counter ever
\* decreases, and a packet routed to a connection is counted there exactly once.
C19_CountersMonotonicAndCoverAll ==
    /\ [](packet_count >= packet_len_error_count + packet_parsing_error_count
                             + packet_not_tcp_count + packets_accepted)
    /\ [][/\ packet_count' >= packet_count
           /\ packet_len_error_count' >= packet_len_error_count
           /\ packet_parsing_error_count' >= packet_parsing_error_count
           /\ packet_not_tcp_count' >= packet_not_tcp_count
           /\ conn_alltime_count' >= conn_alltime_count
           /\ (last'.routed /\ ~panicked' /\ packet_count' # packet_count) =>
                  packets_of(conn_list', DOMAIN conn_list') = packets_accepted + 1
          ]_vars

\* C19 witness: one frame of each kind was processed: a truncated one, an
\* unparseable one, a non-TCP one and a TCP packet without payload.
C19_OneOfEachKind ==
    /\ packet_count = 4 /\ packet_len_error_count = 1 /\ packet_parsing_error_count = 1
    /\ packet_not_tcp_count = 1 /\ packets_accepted = 1
    /\ \A s \in DOMAIN conn_list : conn_list[s].total_bytes_1 + conn_list[s].total_bytes_2 = 0

\* C20: a call for a frame that is truncated, unparseable or not IPv4/TCP adds
\* one to packet_count and one to the error counter of its kind (the length test
\* first, then the parse, then the protocol), and changes neither another
\* counter nor the connection map nor any Conn.
C20_DroppedFrameOnlyCounted ==
    [][(packet_count' # packet_count
          /\ (last'.truncated \/ ~last'.parse_ok \/ ~last'.ipv4_tcp)) =>
          LET len_error == IF last'.truncated THEN 1 ELSE 0
              parsing_error == IF ~last'.truncated /\ ~last'.parse_ok THEN 1 ELSE 0
          IN  /\ packet_count' = packet_count + 1
              /\ packet_len_error_count' = packet_len_error_count + len_error
              /\ packet_parsing_error_count' = packet_parsing_error_count + parsing_error
              /\ packet_not_tcp_count' = packet_not_tcp_count + (1 - len_error - parsing_error)
              /\ conn_list' = conn_list /\ conn_alltime_count' = conn_alltime_count
              /\ ~panicked'
      ]_vars

\* C20 witness: a truncated IPv4/TCP frame was dropped while a connection with
\* two counted packets existed, and no connection was added.
C20_TruncatedAfterTraffic ==
    /\ last.truncated /\ last.ipv4_tcp /\ ~last.routed
    /\ packet_len_error_count = 1 /\ packet_count = 3
    /\ conn_alltime_count = 1 /\ packets_accepted = 2

\* The flow a "bytes" run writes to and reads from
bytes_flow == flow_conn_list[FlowSign].flow_src_low

\* C21: read_bytes(size, rpos) answers with the end-of-input error whenever
\* rpos + size is above the buffer length, and otherwise with exactly the size
\* bytes stored at rpos .. rpos + size - 1; the call changes nothing of the flow.
C21_ReadBytesErrOrExactBytes ==
    /\ [](flow_answer.op = "read_bytes" /\ flow_answer.writes = Len(flow_writes) =>
            LET sum == u64_add(flow_answer.rpos, flow_answer.size)
                exceeds == sum.overflow \/ u64_lt(u64_from_int(bytes_flow.data_len), sum.value)
            IN  /\ ~flow_answer.panic
                /\ exceeds => flow_answer.err
                /\ ~exceeds =>
                      /\ ~flow_answer.err
                      /\ flow_answer.bytes =
                            [i \in 1..u64_to_int(flow_answer.size) |->
                                data_at(bytes_flow, u64_to_int(flow_answer.rpos) + i - 1)])
    /\ [][flow_answer'.op = "read_bytes" /\ flow_writes' = flow_writes =>
              flow_conn_list' = flow_conn_list]_vars

\* "A.B.C.D:P" of an endpoint <<ip, port>>
endpoint_str(e) ==
    format_address(e[1][1] \div 256, e[1][1] % 256, e[1][2] \div 256, e[1][2] % 256, e[2])

\* C22: for a Conn created with the signature of a 4-tuple, addresses_as_str(true)
\* is "A.B.C.D:P" of the lower endpoint (IP first, then port) and
\* addresses_as_str(false) that of the higher endpoint.
C22_AddressesAsStrInvertsSignature ==
    addresses.done =>
        LET lower == IF endpoint_lt(sign_dst, sign_src) THEN sign_dst ELSE sign_src
            higher == IF endpoint_lt(sign_dst, sign_src) THEN sign_src ELSE sign_dst
        IN  /\ addresses.low = endpoint_str(lower)
            /\ addresses.high = endpoint_str(higher)

\* last_seq = tcp_seq + byte_count + wrap_around * 2^32 of a segment
segment_last_seq(flow, tcp_seq, byte_count) ==
    u64_add(U64(0, flow.wrap_around, tcp_seq[1], tcp_seq[2]), u64_from_int(byte_count)).value

\* The wrap-around case: last_seq < max_seq, last_seq + 2^32 > max_seq and
\* last_seq + 2^32 - MAX_FORWARD_SEQ_JUMP <= max_seq
wrap_around_case(flow, last_seq) ==
    LET plus_w == u64_add(last_seq, Two32).value
    IN  /\ u64_lt(last_seq, flow.max_seq)
        /\ u64_lt(flow.max_seq, plus_w)
        /\ u64_le(plus_w, u64_add(flow.max_seq, u64_from_int(MAX_FORWARD_SEQ_JUMP)).value)

\* A step that is an add_bytes call on the flow of a "sequence" run
add_bytes_step == flow_last'.op = "add_bytes" /\ flow_stream'.segments = flow_stream.segments + 1

\* C23: an add_bytes call with a non-empty payload whose last_seq is not in the
\* wrap-around case and is at most MAX_FORWARD_SEQ_JUMP beyond max_seq (so also
\* when it is below max_seq or below MAX_FORWARD_SEQ_JUMP) sets max_seq to
\* last_seq and leaves wrap_around as it was.
C23_NormalCaseSetsMaxSeq ==
    [][(add_bytes_step /\ flow_last'.byte_count > 0
          /\ ~wrap_around_case(sequence_flow,
                 segment_last_seq(sequence_flow, flow_last'.tcp_seq, flow_last'.byte_count))
          /\ ~suspicious_jump(sequence_flow, flow_last'.tcp_seq, flow_last'.byte_count)) =>
          LET after == flow_conn_list'[FlowSign].flow_src_low
          IN  /\ after.max_seq =
                    segment_last_seq(sequence_flow, flow_last'.tcp_seq, flow_last'.byte_count)
              /\ after.wrap_around = sequence_flow.wrap_around
      ]_vars

\* The flow of an "unset" run
unset_flow == flow_conn_list[FlowSign].flow_src_low

\* C24: while the ISN of a direction has not been set, add_bytes calls on it
\* leave the buffer and data_filled_ranges empty and place no payload (they
\* change packet_count, byte_count and the sequence tracking only).
C24_NoWriteBeforeIsn ==
    workload = "unset" =>
        /\ unset_flow.data_len = 0 /\ unset_flow.data_written = {}
        /\ unset_flow.data_filled_ranges = << >>
        /\ ~flow_last.placed

\* C25: no add_bytes call lowers wrap_around or max_seq of its flow.
C25_MaxSeqAndWrapAroundNeverDecrease ==
    [][add_bytes_step =>
          LET after == flow_conn_list'[FlowSign].flow_src_low
          IN  /\ after.wrap_around >= sequence_flow.wrap_around
              /\ u64_le(sequence_flow.max_seq, after.max_seq)
      ]_vars

\* The place of a state in the order Created < SynSent < Established < FinWait1
\* < FinWait2 < Closed
state_rank(state) ==
    CASE state.tag = "Created" -> 0
      [] state.tag = "SynSent" -> 1
      [] state.tag = "Established" -> 2
      [] state.tag = "FinWait1" -> 3
      [] state.tag = "FinWait2" -> 4
      [] OTHER -> 5

\* The state a connection of the next map had before the step (Created if the
\* step made it)
state_before(conn_sign) ==
    IF conn_sign \in DOMAIN conn_list THEN conn_list[conn_sign].state ELSE Created

\* C26: no packet moves a connection to an earlier state of the order Created <
\* SynSent < Established < FinWait1 < FinWait2 < Closed; Established is entered
\* from SynSent only and FinWait2 from FinWait1 only; a Closed connection stays
\* Closed, and only a RST changes the direction it carries.
C26_StateOnlyMovesForward ==
    [][\A conn_sign \in DOMAIN conn_list' :
          LET before == state_before(conn_sign)
              after == conn_list'[conn_sign].state
          IN  /\ state_rank(after) >= state_rank(before)
              /\ (after.tag = "Established" /\ before.tag # "Established") =>
                    before.tag = "SynSent"
              /\ (after.tag = "FinWait2" /\ before.tag # "FinWait2") => before.tag = "FinWait1"
              /\ before.tag = "Closed" =>
                    /\ after.tag = "Closed"
                    /\ after # before => (last'.rst /\ last'.conn_sign = conn_sign)
              /\ (after.tag = before.tag /\ after.tag # "Closed") => after = before
      ]_vars

\* C26 witness: a packet without RST arrived on a Closed connection, which is
\* still Closed with the direction it had.
C26_PacketAfterClose ==
    /\ last.routed /\ ~last.rst /\ last.before = "Closed"
    /\ conn_list[last.conn_sign].state.tag = "Closed"
    /\ packet_count >= 2 /\ ~panicked

\* C27: a write_bytes call of n >= 1 bytes at offset w completes; after it the
\* buffer length is the larger of the old length and w + n, the bytes at
\* w .. w + n - 1 are the bytes written, every byte stored elsewhere before has
\* kept its value, and the bytes between the old end and w are zero.
C27_WriteBytesGrowsAndKeepsOtherBytes ==
    [][(workload \in {"ranges", "bytes"} /\ Len(flow_writes') = Len(flow_writes) + 1) =>
          LET w == flow_writes'[Len(flow_writes')][1]
              n == flow_writes'[Len(flow_writes')][2]
              bytes == payload_bytes(Len(flow_writes'), n)
              before == bytes_flow
              after == flow_conn_list'[FlowSign].flow_src_low
          IN  /\ ~panicked'
              /\ after.data_len = IF before.data_len > w + n THEN before.data_len ELSE w + n
              /\ \A i \in 1..n : data_at(after, w + i - 1) = bytes[i]
              /\ \A o \in 0..(before.data_len - 1) :
                    (o < w \/ o >= w + n) => data_at(after, o) = data_at(before, o)
              /\ \A o \in before.data_len..(w - 1) : data_at(after, o) = 0
      ]_vars

\* C28: a routed packet of a signature that is not in the map adds a Conn for
\* it, whatever its flags; the Conn has the next conn_sequence, above those of
\* all earlier ones, and holds that one packet alone, its state being the one
\* the packet's flags lead to from Created; no Conn is removed or renumbered;
\* conn_sequence values are pairwise distinct and conn_alltime_count is the
\* number of Conns in the map.
C28_ConnCreatedOnceAndNumbered ==
    /\ [](/\ conn_alltime_count = Cardinality(DOMAIN conn_list)
          /\ \A k1 \in DOMAIN conn_list, k2 \in DOMAIN conn_list :
                conn_list[k1].conn_sequence = conn_list[k2].conn_sequence => k1 = k2)
    /\ [][/\ DOMAIN conn_list \subseteq DOMAIN conn_list'
           /\ \A kept \in DOMAIN conn_list :
                 conn_list'[kept].conn_sequence = conn_list[kept].conn_sequence
           /\ (last'.routed /\ packet_count' # packet_count) =>
                 last'.conn_sign \in DOMAIN conn_list'
           /\ \A k \in DOMAIN conn_list' \ DOMAIN conn_list :
                 LET conn == conn_list'[k]
                 IN  /\ k = last'.conn_sign
                     /\ \A old \in DOMAIN conn_list :
                           conn_list[old].conn_sequence < conn.conn_sequence
                     /\ conn.conn_sequence = conn_alltime_count'
                     /\ panicked' => conn = Conn_new(conn.conn_sequence)
                     /\ ~panicked' =>
                           /\ conn.packet_count_1 + conn.packet_count_2 = 1
                           /\ conn.total_bytes_1 = accepted'[k].bytes_low
                           /\ conn.total_bytes_2 = accepted'[k].bytes_high
                           /\ conn.state.tag \in {"Created", "SynSent", "Closed"}
                           /\ conn.state.tag = "Closed" <=> last'.rst
                           /\ conn.state.tag # "Created" => conn.state.dir = last'.packet_dir
          ]_vars

\* C28 witness: two connections, the first made by a RST and the second by a SYN.
C28_TwoConnsRstThenSyn ==
    /\ conn_alltime_count = 2
    /\ \E k1 \in DOMAIN conn_list, k2 \in DOMAIN conn_list :
          /\ conn_list[k1].conn_sequence = 1 /\ conn_list[k1].state.tag = "Closed"
          /\ conn_list[k2].conn_sequence = 2 /\ conn_list[k2].state.tag = "SynSent"

\* C29: in every flow data_filled_ranges is sorted by start, so that its first
\* entry, the one has_ready_bytes and has_ready_buffer look at, is the range
\* with the lowest start, and no range ends beyond the buffer.
C29_FilledRangesSortedAndInsideBuffer ==
    \A conn_sign \in DOMAIN flow_conn_list, packet_dir \in {"SrcLowAddr", "SrcHighAddr"} :
        LET flow == conn_flow(flow_conn_list[conn_sign], packet_dir)
            ranges == flow.data_filled_ranges
        IN  /\ \A i \in 1..Len(ranges), j \in 1..Len(ranges) :
                  i < j => ranges[i].start <= ranges[j].start
            /\ \A i \in 1..Len(ranges) : ranges[i].end <= flow.data_len

====
